---- MODULE Spec2Model ----
(***************************************************************************)
(* Capability negotiation and suspend/resume routing of the supervisor     *)
(* example: a supervisor delegates a request to a wifi or a video worker   *)
(* through handle_wifi_request / handle_video_request.  Two snapshots of   *)
(* the program live side by side in the repository and both are modelled:  *)
(*   "middleware": agent.py, module-level workers whose toolset is set per *)
(*                 model call by DomainToolFilterMiddleware from a list of *)
(*                 advertised names;                                       *)
(*   "schema":     backend/src, workers created per request from the MCP   *)
(*                 tools plus the tools converted from advertised schemas. *)
(***************************************************************************)
EXTENDS Integers, Sequences, FiniteSets, TLC

VARIABLES
    pc,           \* position of the top-level run: idle, delegated, suspended, done, failed
    variant,      \* which snapshot serves the request
    domain,       \* the domain the supervisor routed the request to
    configurable, \* config.configurable.advertised_client_tools (list of names)
    parentCtx,    \* runtime context of the supervisor run
    ctx,          \* request.runtime.context seen by the worker's filter middleware
    schemas,      \* config.configurable.client_tool_schemas (list of schemas)
    logged,       \* DomainToolFilterMiddleware._logged, per module-level instance
    tools,        \* toolset offered to the worker's reasoning engine (request.tools)
    nodeTools,    \* tools registered with the worker (create_agent(tools=...))
    raised,       \* exception raised while building the toolset, "none" if none
    wstate,       \* worker: none, Running, AwaitingApproval, Completed
    steps,        \* model calls made by the worker for this request
    executed,     \* log of capability executions of the worker
    pending,      \* the worker's suspended tool call (HITL interrupt), NoCall if none
    topInterrupt, \* the interrupt the supervisor's caller sees, NoCall if none
    wrapperText,  \* text returned by the delegation tool, NoText if it has not returned
    lastContent,  \* content of the worker's last message
    emitted,      \* every UI event pushed by a capability (history)
    workerUi,     \* 'ui' channel of the worker's state
    callerUi,     \* 'ui' channel of the supervisor's state, streamed to the caller
    otherCtx,     \* runtime context of a second request served by the same instance
    injected,     \* log of the toolsets one middleware instance set on request.tools
    loaded,       \* tools returned by the MCP client, each with the server it came from
    grouped       \* wifi_mcp_tools / video_mcp_tools built from the loaded tools

vars == <<pc, variant, domain, configurable, parentCtx, ctx, schemas, logged, tools,
          nodeTools, raised, wstate, steps, executed, pending, topInterrupt,
          wrapperText, lastContent, emitted, workerUi, callerUi,
          otherCtx, injected, loaded, grouped>>

shareVars == <<otherCtx, injected>>
loadVars == <<loaded, grouped>>

---------------------------------------------------------------------------
(* Bounds of the model *)

MaxAdv == 4          \* longest advertised name list drawn for negotiation
MaxSchemas == 2      \* longest advertised schema list drawn for negotiation
MaxReqAdv == 1       \* longest advertised name list of a delegated request
MaxReqSchemas == 1   \* longest advertised schema list of a delegated request
MaxSteps == 2        \* model calls of one worker run that the model follows
MaxShareAdv == 1     \* longest advertisement of the requests that share a worker
MaxCalls == 3        \* model calls served by one middleware instance
MaxLoaded == 2       \* most tools the MCP servers expose together

---------------------------------------------------------------------------
(* Sequence helpers *)

Range(s) == {s[i] : i \in 1..Len(s)}

RECURSIVE MapNames(_)
MapNames(ts) == IF ts = <<>> THEN <<>> ELSE <<Head(ts).name>> \o MapNames(Tail(ts))

SeqsUpTo(S, n) == UNION {[1..k -> S] : k \in 0..n}

Count(ts, n) == Cardinality({i \in 1..Len(ts) : ts[i].name = n})

---------------------------------------------------------------------------
(* Static tables *)

Domains == {"wifi", "video"}
Variants == {"middleware", "schema"}

Tool(n, o) == [name |-> n, origin |-> o]

\* Tools served by the two MCP servers, in load order (wifi server, video server).
ServerTools == <<"wifi_diagnostic", "restart_router", "search_content", "rent_movie">>

\* The keywords of _fetch_tools_by_server that occur in a tool's lower-cased name.
NameKeywords(n) ==
    CASE n = "wifi_diagnostic" -> {"wifi", "diagnostic"}
      [] n = "restart_router"  -> {"router"}
      [] n = "search_content"  -> {"search", "content"}
      [] n = "rent_movie"      -> {"rent", "movie"}
      [] n = "stream_diagnostic" -> {"stream", "diagnostic"}
      [] n = "speed_test"      -> {}
      [] OTHER                 -> {}

WifiKeywords == {"wifi", "network", "router", "diagnostic"}
VideoKeywords == {"video", "content", "search", "movie", "rent", "stream"}

\* backend/src/mcp_setup.py: the if / elif of the grouping loop.
GroupOfVideoFirst(n) ==
    IF NameKeywords(n) \cap VideoKeywords # {} THEN "video"
    ELSE IF NameKeywords(n) \cap WifiKeywords # {} THEN "wifi"
    ELSE "none"
GroupOf(n) ==
    IF NameKeywords(n) \cap WifiKeywords # {} THEN "wifi"
    ELSE IF NameKeywords(n) \cap VideoKeywords # {} THEN "video"
    ELSE "none"

\* A tool as the MCP client returns it: its name and the server that serves it.
ServerTool(n, srv) == [name |-> n, server |-> srv]

NoGroups == [wifi |-> <<>>, video |-> <<>>]

\* _fetch_tools_by_server: wifi_tools and video_tools built by the loop over
\* all_tools, a tool that matches no keyword being appended to neither.
FetchToolsByServer(all_tools) ==
    [wifi  |-> SelectSeq(all_tools, LAMBDA t : GroupOf(t.name) = "wifi"),
     video |-> SelectSeq(all_tools, LAMBDA t : GroupOf(t.name) = "video")]

\* agent.py: the MCP tools are separated by hard-coded names.
RootGroupOf(n) ==
    IF n \in {"wifi_diagnostic", "restart_router"} THEN "wifi"
    ELSE IF n \in {"search_content"} THEN "video"
    ELSE "none"

RECURSIVE ToolsOf(_, _)
ToolsOf(names, o) ==
    IF names = <<>> THEN <<>> ELSE <<Tool(Head(names), o)>> \o ToolsOf(Tail(names), o)

\* wifi_mcp_tools / video_mcp_tools: the domain's fixed capabilities.
McpTools(v, d) ==
    IF v = "middleware"
    THEN ToolsOf(SelectSeq(ServerTools, LAMBDA n : RootGroupOf(n) = d), "mcp")
    ELSE ToolsOf(SelectSeq(ServerTools, LAMBDA n : GroupOf(n) = d), "mcp")

CLIENT_TOOL_REGISTRY ==
    <<"confirmation_dialog", "error_display", "network_status_display", "play_video">>

DOMAIN_TOOL_MAPPING(d) ==
    CASE d = "wifi"  -> <<"confirmation_dialog", "error_display", "network_status_display">>
      [] d = "video" -> <<"confirmation_dialog", "error_display", "play_video">>
      [] OTHER       -> <<>>

\* all_client_tools = list(CLIENT_TOOL_REGISTRY.values())
all_client_tools == ToolsOf(CLIENT_TOOL_REGISTRY, "registry")

---------------------------------------------------------------------------
(* Negotiation by advertised names: DomainToolFilterMiddleware *)

NoContext == [isDict |-> FALSE, adv |-> <<>>]
DictContext(names) == [isDict |-> TRUE, adv |-> names]

RECURSIVE get_tools_by_names_until_unknown(_)
get_tools_by_names_until_unknown(tool_names) ==
    IF tool_names = <<>> \/ Head(tool_names) \notin Range(CLIENT_TOOL_REGISTRY)
    THEN <<>>
    ELSE <<Tool(Head(tool_names), "registry")>>
         \o get_tools_by_names_until_unknown(Tail(tool_names))
get_tools_by_names_registry_order(tool_names) ==
    ToolsOf(SelectSeq(CLIENT_TOOL_REGISTRY, LAMBDA n : n \in Range(tool_names)), "registry")
get_tools_by_names(tool_names) ==
    ToolsOf(SelectSeq(tool_names, LAMBDA n : n \in Range(CLIENT_TOOL_REGISTRY)), "registry")

\* The names kept by the middleware: advertised and allowed for the domain.
RelevantNamesIfAllAllowed(d, context) ==
    IF context.isDict /\ Range(context.adv) \subseteq Range(DOMAIN_TOOL_MAPPING(d))
    THEN context.adv
    ELSE <<>>
RelevantNamesAllowedWhenEmpty(d, context) ==
    IF context.isDict /\ context.adv # <<>>
    THEN SelectSeq(context.adv, LAMBDA n : n \in Range(DOMAIN_TOOL_MAPPING(d)))
    ELSE DOMAIN_TOOL_MAPPING(d)
RelevantNamesUnfiltered(d, context) == IF context.isDict THEN context.adv ELSE <<>>
RelevantNames(d, context) ==
    LET advertised_tool_names == IF context.isDict THEN context.adv ELSE <<>>
        allowed_tool_names == DOMAIN_TOOL_MAPPING(d)
    IN IF advertised_tool_names = <<>>
       THEN <<>>
       ELSE SelectSeq(advertised_tool_names, LAMBDA n : n \in Range(allowed_tool_names))

\* _filter_and_inject_tools: the value assigned to request.tools.
FilterAndInjectWhileUnlogged(d, static_tools, context) ==
    IF logged[d] THEN static_tools
    ELSE static_tools \o get_tools_by_names(RelevantNames(d, context))
FilterAndInjectCached(d, static_tools, context) ==
    IF injected # <<>> THEN injected[Len(injected)].tools
    ELSE static_tools \o get_tools_by_names(RelevantNames(d, context))
FilterAndInject(d, static_tools, context) ==
    static_tools \o get_tools_by_names(RelevantNames(d, context))

---------------------------------------------------------------------------
(* Negotiation by advertised schemas: get_filtered_tools and the same code *)
(* inlined in handle_wifi_request / handle_video_request                   *)

NoName == "<no name>"           \* the schema dict has no 'name' key

\* The value under a schema's 'domains' key.
DomainsMissing == [kind |-> "missing", list |-> <<>>, str |-> ""]
DomainsList(l) == [kind |-> "list", list |-> l, str |-> ""]
DomainsStr(t) == [kind |-> "str", list |-> <<>>, str |-> t]
DomainsNull == [kind |-> "null", list |-> <<>>, str |-> ""]

Schema(n, dv) == [name |-> n, domains |-> dv]

\* Python's  domain in schema.get("domains", [])  for each kind of value: list
\* membership, substring test on a string (the strings drawn are domain names, so
\* a substring is the whole string), TypeError on None.
DomainTest(d, dv) ==
    CASE dv.kind = "list" -> IF d \in Range(dv.list) THEN "yes" ELSE "no"
      [] dv.kind = "str"  -> IF d = dv.str THEN "yes" ELSE "no"
      [] dv.kind = "null" -> "TypeError"
      [] OTHER            -> "no"

\* The for loop over tool_schemas: [raised, kept].
RECURSIVE FilterSchemas(_, _)
FilterSchemas(d, ss) ==
    IF ss = <<>> THEN [raised |-> "none", kept |-> <<>>]
    ELSE LET s == Head(ss)
             rest == FilterSchemas(d, Tail(ss))
         IN IF s.domains.kind = "missing" THEN rest
            ELSE IF DomainTest(d, s.domains) = "TypeError"
                 THEN [raised |-> "TypeError", kept |-> <<>>]
            ELSE IF rest.raised # "none" THEN rest
            ELSE IF DomainTest(d, s.domains) = "yes"
                 THEN [raised |-> "none", kept |-> <<s>> \o rest.kept]
            ELSE rest

\* _create_tool_from_schema: the tool is named schema.get("name", "unknown_tool").
CreateToolFromSchema(s) ==
    Tool(IF s.name = NoName THEN "unknown_tool" ELSE s.name, "schema")

RECURSIVE convert_agui_schemas_to_tools_named_only(_)
convert_agui_schemas_to_tools_named_only(ss) ==
    IF ss = <<>> THEN <<>>
    ELSE (IF Head(ss).name = NoName THEN <<>> ELSE <<CreateToolFromSchema(Head(ss))>>)
         \o convert_agui_schemas_to_tools_named_only(Tail(ss))

RECURSIVE convert_agui_schemas_to_tools(_)
convert_agui_schemas_to_tools(ss) ==
    IF ss = <<>> THEN <<>>
    ELSE <<CreateToolFromSchema(Head(ss))>> \o convert_agui_schemas_to_tools(Tail(ss))

\* get_filtered_tools: [raised, tools].  The log line after the loop reads
\* s['name'] of every kept schema.
get_filtered_tools(d, mcp_tools, tool_schemas) ==
    IF tool_schemas = <<>>
    THEN [raised |-> "none", tools |-> mcp_tools]
    ELSE LET f == FilterSchemas(d, tool_schemas)
         IN IF f.raised # "none" THEN [raised |-> f.raised, tools |-> <<>>]
            ELSE IF \E i \in 1..Len(f.kept) : f.kept[i].name = NoName
                 THEN [raised |-> "KeyError", tools |-> <<>>]
            ELSE [raised |-> "none",
                  tools |-> mcp_tools \o convert_agui_schemas_to_tools(f.kept)]

---------------------------------------------------------------------------
(* The worker: create_agent with HumanInTheLoopMiddleware *)

NoText == "<no text>"
NoCall == [name |-> "<none>", args |-> "<none>", at |-> 0]

\* interrupt_on of the worker's HumanInTheLoopMiddleware.
InterruptOnNothing(v, d) == {}
InterruptOn(v, d) ==
    CASE v = "schema" /\ d = "wifi"      -> {"restart_router"}
      [] v = "schema" /\ d = "video"     -> {"rent_movie"}
      [] v = "middleware" /\ d = "wifi"  -> {"restart_router"}
      [] v = "middleware" /\ d = "video" -> {"confirmation_dialog"}
      [] OTHER                           -> {}

\* The tools the worker is created with: create_agent(tools=...).
RegisteredTools(v, d, negotiated) ==
    IF v = "middleware" THEN McpTools(v, d) \o all_client_tools ELSE negotiated

\* The worker's state has a 'ui' channel only when its state_schema declares one
\* (VideoAgentState); create_wifi_agent and the agent.py workers declare none.
HasUiChannel(v, d) == v = "schema" /\ d = "video"

\* Tools are looked up by name; of two tools with one name the later registration
\* is the one that runs.
Registered(ts, n) == \E i \in 1..Len(ts) : ts[i].name = n
Lookup(ts, n) == ts[CHOOSE i \in 1..Len(ts) :
                        /\ ts[i].name = n
                        /\ \A j \in 1..Len(ts) : ts[j].name = n => j <= i]

\* The names the reasoning engine can put in a tool call: the engine is external
\* and is not bound to the tools it was offered.
SelectableNames ==
    Range(ServerTools) \cup Range(CLIENT_TOOL_REGISTRY)

\* Arguments the engine passes to a capability: a UI capability is followed
\* with two different sets of properties, a provider tool with one set of
\* arguments.
Props == {"props_a", "props_b"}
ArgsOf(n) == IF n \in Range(ServerTools) THEN {"args"} ELSE Props

UiEvent(n, p) == [name |-> n, props |-> p]

\* play_video of the registry is declared return_direct=True.
ReturnDirect(t) == t.origin = "registry" /\ t.name = "play_video"

\* The value of a tool call's selected_option argument when it is not given.
NoOption == "<no option>"

\* What a resume can carry: "approve" runs the suspended call as it was made,
\* "edit" runs it with the user's choice filled in as selected_option, "reject"
\* does not run it.
Options == {"Yes, Restart Router", "Yes, Rent", "Cancel", "No thanks"}

\* The options the confirmation prompt of a suspended call of n lets the user
\* choose from.
OptionsOf(n) ==
    CASE n = "restart_router" -> {"Yes, Restart Router", "Cancel"}
      [] n = "rent_movie"     -> {"Yes, Rent", "No thanks", "Cancel"}
      [] OTHER                -> {"Cancel"}
Decision(t, o) == [type |-> t, selected_option |-> o]
NoDecision == Decision("none", NoOption)
Decisions ==
    {Decision("approve", NoOption), Decision("reject", NoOption)}
        \cup {Decision("edit", o) : o \in Options}

\* restart_router of the wifi server: mcp_servers/wifi_server.py (agent.py) has
\* no selected_option and always restarts; backend/src/mcp_servers/wifi_server.py
\* branches on selected_option and falls through when it is not given.
restart_router(v, selected_option) ==
    IF v = "middleware" THEN "router restart initiated"
    ELSE IF selected_option # NoOption
    THEN IF selected_option = "Yes, Restart Router"
         THEN "router restart initiated"
         ELSE "router restart cancelled by user"
    ELSE "awaiting confirmation to restart router"

\* rent_movie of the video server: cancelled when the option contains "cancel".
rent_movie(selected_option) ==
    IF selected_option # NoOption /\ selected_option = "Cancel"
    THEN "rental cancelled by user"
    ELSE "movie rented"

\* confirmation_dialog of tool_registry.py: reports the first option.
confirmation_dialog == "user confirmed first option"

\* What running a tool leaves as the content of the worker's last message.
ResultContent(v, t, selected_option) ==
    IF ReturnDirect(t) THEN "video_player payload"
    ELSE IF t.origin = "schema" THEN "UI updated successfully"
    ELSE IF t.origin = "mcp" /\ t.name = "restart_router"
         THEN restart_router(v, selected_option)
    ELSE IF t.origin = "mcp" /\ t.name = "rent_movie" THEN rent_movie(selected_option)
    ELSE IF t.origin = "registry" /\ t.name = "confirmation_dialog"
         THEN confirmation_dialog
    ELSE "tool result"

\* Running tool t with arguments p inside the worker, at once (NoDecision) or
\* on a resume with a decision: the execution is logged, a schema-driven tool
\* pushes one UI event (dynamic_tool_func), and the event lands in the worker's
\* 'ui' channel when it has one.
RunTool(t, p, decision) ==
    /\ executed' = Append(executed,
                          [name |-> t.name, origin |-> t.origin, args |-> p,
                           decided |-> decision # NoDecision,
                           offered |-> t \in Range(tools'),
                           decision |-> decision.type,
                           selected_option |-> decision.selected_option,
                           result |-> ResultContent(variant, t, decision.selected_option)])
    /\ lastContent' = ResultContent(variant, t, decision.selected_option)
    /\ IF t.origin = "schema"
       THEN /\ emitted' = Append(emitted, UiEvent(t.name, p))
            /\ workerUi' = IF HasUiChannel(variant, domain)
                           THEN Append(workerUi, UiEvent(t.name, p))
                           ELSE workerUi
       ELSE UNCHANGED <<emitted, workerUi>>

---------------------------------------------------------------------------
(* The delegation tools and the top-level run *)

AllDomains == Domains \cup {"billing"}     \* "billing" has no policy entry

\* Names a client may advertise: the registry's, a future one the registry does
\* not know, and the name of a fixed capability.
AdvNames == Range(CLIENT_TOOL_REGISTRY) \cup {"holo_display", "restart_router"}

DomainsValues ==
    {DomainsMissing, DomainsNull, DomainsStr("wifi"),
     DomainsList(<<>>), DomainsList(<<"wifi">>), DomainsList(<<"video">>),
     DomainsList(<<"wifi", "video">>)}

SchemaUniverse ==
    {Schema(n, dv) : n \in {"play_video", "network_status_display", "restart_router", NoName},
                     dv \in DomainsValues}

\* Advertisements of the requests that are followed through a whole run.
ReqAdvNames == {"confirmation_dialog", "play_video", "network_status_display"}

ReqSchemas ==
    {Schema("network_status_display", DomainsList(<<"wifi">>)),
     Schema("play_video", DomainsList(<<"video">>)),
     Schema("play_video", DomainsList(<<"wifi", "video">>)),
     Schema("restart_router", DomainsList(<<"wifi">>)),
     Schema("play_video", DomainsMissing),
     Schema(NoName, DomainsList(<<"wifi", "video">>))}

\* What  result = await agent.ainvoke(...); return result["messages"][-1].content
\* does: an interrupt raised inside ainvoke passes through the wrapper, which has
\* no handler for it; otherwise the last message's content is returned.
WrapperCatchesInterrupt(ws, content) == [interrupt |-> FALSE, text |-> content]
WrapperOutcome(ws, content) ==
    IF ws = "AwaitingApproval"
    THEN [interrupt |-> TRUE, text |-> NoText]
    ELSE [interrupt |-> FALSE, text |-> content]

\* The UI messages the wrapper pushes again into the supervisor's run:
\* handle_video_request (backend) re-pushes result["ui"]; handle_wifi_request
\* and the agent.py wrappers push nothing.
PropagatedNewestFirst(v, d, ui) ==
    IF v = "schema" /\ d = "video"
    THEN [i \in 1..Len(ui) |-> ui[Len(ui) + 1 - i]]
    ELSE <<>>
Propagated(v, d, ui) == IF v = "schema" /\ d = "video" THEN ui ELSE <<>>

Quiet ==
    /\ pc = "idle" /\ variant = "middleware" /\ domain = "wifi"
    /\ configurable = <<>> /\ parentCtx = NoContext /\ ctx = NoContext
    /\ schemas = <<>> /\ logged = [d \in AllDomains |-> FALSE]
    /\ tools = <<>> /\ nodeTools = <<>> /\ raised = "none"
    /\ wstate = "none" /\ steps = 0 /\ executed = <<>>
    /\ pending = NoCall /\ topInterrupt = NoCall
    /\ wrapperText = NoText /\ lastContent = NoText
    /\ emitted = <<>> /\ workerUi = <<>> /\ callerUi = <<>>
    /\ otherCtx = NoContext /\ injected = <<>>
    /\ loaded = <<>> /\ grouped = NoGroups

Init == Quiet

\* agent.py: the supervisor calls handle_wifi_request / handle_video_request.  The
\* client put the advertisement in config.configurable and may also have given it
\* as the run's context.  The wrapper passes config, and no context, to
\* wifi_agent.ainvoke / video_agent.ainvoke: the worker's runtime context is
\* absent, or the supervisor's own when the runtime hands it down.
DelegateMiddleware(d, adv, clientContext, inherits) ==
    /\ pc = "idle"
    /\ variant' = "middleware" /\ domain' = d
    /\ configurable' = adv
    /\ parentCtx' = IF clientContext THEN DictContext(adv) ELSE NoContext
    /\ ctx' = IF inherits THEN parentCtx' ELSE NoContext
    /\ nodeTools' = RegisteredTools("middleware", d, <<>>)
    /\ tools' = nodeTools'
    /\ wstate' = "Running" /\ pc' = "delegated"
    /\ UNCHANGED <<schemas, logged, raised, steps, executed, pending, topInterrupt,
                   wrapperText, lastContent, emitted, workerUi, callerUi>>
    /\ UNCHANGED <<shareVars, loadVars>>

\* backend/src: the wrapper filters the advertised schemas for its domain,
\* converts them, creates the worker with MCP + client tools and invokes it.
DelegateSchema(d, ss) ==
    /\ pc = "idle"
    /\ variant' = "schema" /\ domain' = d /\ schemas' = ss
    /\ LET r == get_filtered_tools(d, McpTools("schema", d), ss)
       IN /\ raised' = r.raised
          /\ tools' = r.tools
          /\ nodeTools' = RegisteredTools("schema", d, r.tools)
          /\ IF r.raised = "none"
             THEN wstate' = "Running" /\ pc' = "delegated"
             ELSE wstate' = "none" /\ pc' = "failed"
    /\ UNCHANGED <<configurable, parentCtx, ctx, logged, steps, executed, pending,
                   topInterrupt, wrapperText, lastContent, emitted, workerUi, callerUi>>
    /\ UNCHANGED <<shareVars, loadVars>>

\* One turn of the worker's loop in which the engine calls tool n with arguments
\* p: the filter middleware sets request.tools (agent.py), the HITL middleware
\* interrupts when n is in interrupt_on, otherwise the tool node runs n when a
\* tool of that name is registered and answers with an error message when not.
SelectTool(n, p) ==
    /\ pc = "delegated" /\ wstate = "Running" /\ steps < MaxSteps
    /\ steps' = steps + 1
    /\ IF variant = "middleware"
       THEN /\ tools' = FilterAndInject(domain, McpTools(variant, domain), ctx)
            /\ logged' = [logged EXCEPT ![domain] = TRUE]
       ELSE UNCHANGED <<tools, logged>>
    /\ IF n \in InterruptOn(variant, domain)
       THEN /\ wstate' = "AwaitingApproval"
            /\ pending' = [name |-> n, args |-> p, at |-> Len(executed)]
            /\ UNCHANGED <<executed, lastContent, emitted, workerUi>>
       ELSE IF Registered(nodeTools, n)
       THEN /\ RunTool(Lookup(nodeTools, n), p, NoDecision)
            /\ wstate' = IF ReturnDirect(Lookup(nodeTools, n)) THEN "Completed" ELSE "Running"
            /\ UNCHANGED pending
       ELSE /\ lastContent' = "not a valid tool"
            /\ UNCHANGED <<wstate, pending, executed, emitted, workerUi>>
    /\ UNCHANGED <<pc, variant, domain, configurable, parentCtx, ctx, schemas, nodeTools,
                   raised, topInterrupt, wrapperText, callerUi>>
    /\ UNCHANGED <<shareVars, loadVars>>

\* The engine concludes with a final answer.
FinalAnswer ==
    /\ pc = "delegated" /\ wstate = "Running"
    /\ IF variant = "middleware"
       THEN /\ tools' = FilterAndInject(domain, McpTools(variant, domain), ctx)
            /\ logged' = [logged EXCEPT ![domain] = TRUE]
       ELSE UNCHANGED <<tools, logged>>
    /\ wstate' = "Completed"
    /\ lastContent' = "final answer"
    /\ UNCHANGED <<pc, variant, domain, configurable, parentCtx, ctx, schemas, nodeTools,
                   raised, steps, executed, pending, topInterrupt, wrapperText, emitted,
                   workerUi, callerUi>>
    /\ UNCHANGED <<shareVars, loadVars>>

\* The worker's ainvoke ends, by a final state or by an interrupt, and the
\* delegation tool finishes.
WrapperReturn ==
    /\ pc = "delegated" /\ wstate \in {"Completed", "AwaitingApproval"}
    /\ LET o == WrapperOutcome(wstate, lastContent)
       IN IF o.interrupt
          THEN /\ pc' = "suspended"
               /\ topInterrupt' = pending
               /\ UNCHANGED <<wrapperText, callerUi>>
          ELSE /\ pc' = "returned"
               /\ wrapperText' = o.text
               /\ callerUi' = callerUi \o Propagated(variant, domain, workerUi)
               /\ UNCHANGED topInterrupt
    /\ UNCHANGED <<variant, domain, configurable, parentCtx, ctx, schemas, logged, tools,
                   nodeTools, raised, wstate, steps, executed, pending, lastContent,
                   emitted, workerUi>>
    /\ UNCHANGED <<shareVars, loadVars>>

\* The supervisor answers its caller with the tool's text.
Respond ==
    /\ pc = "returned"
    /\ pc' = "done"
    /\ UNCHANGED <<variant, domain, configurable, parentCtx, ctx, schemas, logged, tools,
                   nodeTools, raised, wstate, steps, executed, pending, topInterrupt,
                   wrapperText, lastContent, emitted, workerUi, callerUi>>
    /\ UNCHANGED <<shareVars, loadVars>>

\* The caller resumes the interrupted run with a decision: on "approve" and on
\* "edit" the suspended tool call runs, on "reject" it does not; the worker
\* goes on.
Resume(decision) ==
    /\ pc = "suspended" /\ wstate = "AwaitingApproval"
    /\ decision.type = "edit" => decision.selected_option \in OptionsOf(pending.name)
    /\ UNCHANGED <<tools, logged>>
    /\ IF decision.type \in {"approve", "edit"} /\ Registered(nodeTools, pending.name)
       THEN /\ RunTool(Lookup(nodeTools, pending.name), pending.args, decision)
            /\ wstate' = IF ReturnDirect(Lookup(nodeTools, pending.name))
                         THEN "Completed" ELSE "Running"
       ELSE /\ lastContent' = "rejected"
            /\ wstate' = "Running"
            /\ UNCHANGED <<executed, emitted, workerUi>>
    /\ pending' = NoCall /\ topInterrupt' = NoCall
    /\ pc' = "delegated"
    /\ UNCHANGED <<variant, domain, configurable, parentCtx, ctx, schemas, nodeTools,
                   raised, steps, wrapperText, callerUi>>
    /\ UNCHANGED <<shareVars, loadVars>>

Next ==
    \/ \E d \in Domains, adv \in SeqsUpTo(ReqAdvNames, MaxReqAdv),
          clientContext \in BOOLEAN, inherits \in BOOLEAN :
            DelegateMiddleware(d, adv, clientContext, inherits)
    \/ \E d \in Domains, ss \in SeqsUpTo(ReqSchemas, MaxReqSchemas) : DelegateSchema(d, ss)
    \/ \E n \in SelectableNames : \E p \in ArgsOf(n) : SelectTool(n, p)
    \/ FinalAnswer
    \/ WrapperReturn
    \/ Respond
    \/ \E decision \in Decisions : Resume(decision)

Spec == Init /\ [][Next]_vars

---------------------------------------------------------------------------
(* Negotiation on its own: the inputs are drawn and the function is applied *)

InitNeg ==
    /\ pc = "idle"
    /\ variant \in Variants
    /\ domain \in AllDomains
    /\ configurable = <<>> /\ parentCtx = NoContext
    /\ ctx \in IF variant = "middleware"
               THEN {NoContext} \cup {DictContext(a) : a \in SeqsUpTo(AdvNames, MaxAdv)}
               ELSE {NoContext}
    /\ schemas \in IF variant = "schema"
                   THEN SeqsUpTo(SchemaUniverse, MaxSchemas)
                   ELSE {<<>>}
    /\ logged = [d \in AllDomains |-> FALSE]
    /\ tools = <<>> /\ nodeTools = <<>> /\ raised = "none"
    /\ wstate = "none" /\ steps = 0 /\ executed = <<>>
    /\ pending = NoCall /\ topInterrupt = NoCall
    /\ wrapperText = NoText /\ lastContent = NoText
    /\ emitted = <<>> /\ workerUi = <<>> /\ callerUi = <<>>
    /\ otherCtx = NoContext /\ injected = <<>>
    /\ loaded = <<>> /\ grouped = NoGroups

\* DomainToolFilterMiddleware(domain, mcp_tools)._filter_and_inject_tools(request)
NegFilter ==
    /\ variant = "middleware"
    /\ tools' = FilterAndInject(domain, McpTools(variant, domain), ctx)
    /\ logged' = [logged EXCEPT ![domain] = TRUE]
    /\ pc' = "negotiated"
    /\ UNCHANGED <<variant, domain, configurable, parentCtx, ctx, schemas, nodeTools,
                   raised, wstate, steps, executed, pending, topInterrupt, wrapperText,
                   lastContent, emitted, workerUi, callerUi>>
    /\ UNCHANGED <<shareVars, loadVars>>

\* get_filtered_tools(domain, mcp_tools, runtime_config)
NegSchemas ==
    /\ variant = "schema" /\ pc = "idle"
    /\ LET r == get_filtered_tools(domain, McpTools(variant, domain), schemas)
       IN tools' = r.tools /\ raised' = r.raised
    /\ pc' = "negotiated"
    /\ UNCHANGED <<variant, domain, configurable, parentCtx, ctx, schemas, logged,
                   nodeTools, wstate, steps, executed, pending, topInterrupt, wrapperText,
                   lastContent, emitted, workerUi, callerUi>>
    /\ UNCHANGED <<shareVars, loadVars>>

\* get_tools_by_names(tool_names) applied to a list of names as it stands.
NegLookup ==
    /\ variant = "middleware" /\ pc = "idle" /\ ctx.isDict
    /\ tools' = get_tools_by_names(ctx.adv)
    /\ pc' = "looked up"
    /\ UNCHANGED <<variant, domain, configurable, parentCtx, ctx, schemas, logged,
                   nodeTools, raised, wstate, steps, executed, pending, topInterrupt,
                   wrapperText, lastContent, emitted, workerUi, callerUi>>
    /\ UNCHANGED <<shareVars, loadVars>>

\* convert_agui_schemas_to_tools(schemas) applied to a list of schemas as it
\* stands.
NegConvert ==
    /\ variant = "schema" /\ pc = "idle"
    /\ tools' = convert_agui_schemas_to_tools(schemas)
    /\ pc' = "converted"
    /\ UNCHANGED <<variant, domain, configurable, parentCtx, ctx, schemas, logged,
                   nodeTools, raised, wstate, steps, executed, pending, topInterrupt,
                   wrapperText, lastContent, emitted, workerUi, callerUi>>
    /\ UNCHANGED <<shareVars, loadVars>>

\* One call, with arguments p, of the i-th converted tool: dynamic_tool_func.
NegInvoke(i, p) ==
    /\ pc = "converted" /\ i \in 1..Len(tools)
    /\ pc' = "invoked" /\ tools' = tools
    /\ RunTool(tools[i], p, NoDecision)
    /\ UNCHANGED <<variant, domain, configurable, parentCtx, ctx, schemas, logged,
                   nodeTools, raised, wstate, steps, pending, topInterrupt, wrapperText,
                   callerUi>>
    /\ UNCHANGED <<shareVars, loadVars>>

NextNeg ==
    \/ NegFilter
    \/ NegSchemas
    \/ NegLookup
    \/ NegConvert
    \/ \E i \in 1..MaxSchemas, p \in Props : NegInvoke(i, p)

SpecNeg == InitNeg /\ [][NextNeg]_vars

---------------------------------------------------------------------------
(* Requests sharing a module-level worker: agent.py creates wifi_agent and *)
(* video_agent once, each with one DomainToolFilterMiddleware instance     *)
(* that every model call of every request goes through                     *)

RequestIds == {"A", "B"}
CtxOf(r) == IF r = "A" THEN ctx ELSE otherCtx

SharedContexts ==
    {NoContext} \cup {DictContext(a) : a \in SeqsUpTo(ReqAdvNames, MaxShareAdv)}

\* The second request may come from a newer client that advertises one name more.
NewerContexts ==
    {NoContext} \cup {DictContext(a) : a \in SeqsUpTo(ReqAdvNames, MaxShareAdv + 1)}

InitShare ==
    /\ pc = "idle" /\ variant = "middleware"
    /\ domain \in AllDomains
    /\ ctx \in SharedContexts /\ otherCtx \in NewerContexts
    /\ configurable = <<>> /\ parentCtx = NoContext
    /\ schemas = <<>> /\ logged = [d \in AllDomains |-> FALSE]
    /\ tools = <<>> /\ nodeTools = <<>> /\ raised = "none"
    /\ wstate = "none" /\ steps = 0 /\ executed = <<>>
    /\ pending = NoCall /\ topInterrupt = NoCall
    /\ wrapperText = NoText /\ lastContent = NoText
    /\ emitted = <<>> /\ workerUi = <<>> /\ callerUi = <<>>
    /\ injected = <<>>
    /\ loaded = <<>> /\ grouped = NoGroups

\* awrap_model_call for a model call of request r: the instance sets
\* request.tools from r's runtime context and sets its _logged flag.
ModelCall(r) ==
    /\ Len(injected) < MaxCalls
    /\ LET t == FilterAndInject(domain, McpTools(variant, domain), CtxOf(r))
       IN /\ tools' = t
          /\ injected' = Append(injected, [req |-> r, tools |-> t,
                                           first |-> ~logged[domain]])
    /\ logged' = [logged EXCEPT ![domain] = TRUE]
    /\ pc' = "serving"
    /\ UNCHANGED <<variant, domain, configurable, parentCtx, ctx, schemas, nodeTools,
                   raised, wstate, steps, executed, pending, topInterrupt, wrapperText,
                   lastContent, emitted, workerUi, callerUi, otherCtx>>
    /\ UNCHANGED loadVars

\* DomainToolFilterMiddleware(domain, static_tools): a new instance takes the
\* place of the used one; __init__ sets _logged = False.
NewInstance ==
    /\ logged[domain]
    /\ logged' = [logged EXCEPT ![domain] = FALSE]
    /\ UNCHANGED <<pc, variant, domain, configurable, parentCtx, ctx, schemas, tools,
                   nodeTools, raised, wstate, steps, executed, pending, topInterrupt,
                   wrapperText, lastContent, emitted, workerUi, callerUi>>
    /\ UNCHANGED <<shareVars, loadVars>>

NextShare == (\E r \in RequestIds : ModelCall(r)) \/ NewInstance

SpecShare == InitShare /\ [][NextShare]_vars

---------------------------------------------------------------------------
(* Loading the MCP tools: the servers' tools are drawn and grouped *)

\* Names a server may give a tool: the four the servers have today, one with a
\* keyword of each domain and one with no keyword.
LoadNames == Range(ServerTools) \cup {"stream_diagnostic", "speed_test"}

InitLoad ==
    /\ pc = "idle" /\ variant = "schema" /\ domain = "wifi"
    /\ configurable = <<>> /\ parentCtx = NoContext /\ ctx = NoContext
    /\ schemas = <<>> /\ logged = [d \in AllDomains |-> FALSE]
    /\ tools = <<>> /\ nodeTools = <<>> /\ raised = "none"
    /\ wstate = "none" /\ steps = 0 /\ executed = <<>>
    /\ pending = NoCall /\ topInterrupt = NoCall
    /\ wrapperText = NoText /\ lastContent = NoText
    /\ emitted = <<>> /\ workerUi = <<>> /\ callerUi = <<>>
    /\ otherCtx = NoContext /\ injected = <<>>
    /\ loaded \in SeqsUpTo({ServerTool(n, srv) : n \in LoadNames, srv \in Domains}, MaxLoaded)
    /\ grouped = NoGroups

\* load_mcp_tools(): wifi_mcp_tools, video_mcp_tools = _fetch_tools_by_server()
LoadMcpTools ==
    /\ pc = "idle"
    /\ grouped' = FetchToolsByServer(loaded)
    /\ pc' = "loaded"
    /\ UNCHANGED <<variant, domain, configurable, parentCtx, ctx, schemas, logged, tools,
                   nodeTools, raised, wstate, steps, executed, pending, topInterrupt,
                   wrapperText, lastContent, emitted, workerUi, callerUi, loaded>>
    /\ UNCHANGED shareVars

NextLoad == LoadMcpTools

SpecLoad == InitLoad /\ [][NextLoad]_vars

---------------------------------------------------------------------------
(* Properties *)

Permitted(d) == Range(DOMAIN_TOOL_MAPPING(d))
InRegistry(n) == n \in Range(CLIENT_TOOL_REGISTRY)
FilterRan == pc = "negotiated" /\ variant = "middleware"

\* C1: for every domain and advertisement, every tool the domain filter injects is
\* a fixed capability of the domain or has a name in the domain's permitted list,
\* and an advertised name outside the permitted list adds no tool of that name.
C1_ToolsetWithinPolicy ==
    FilterRan =>
        /\ \A i \in 1..Len(tools) :
              \/ tools[i] \in Range(McpTools(variant, domain))
              \/ tools[i].name \in Permitted(domain)
        /\ \A n \in Range(ctx.adv) :
              n \notin Permitted(domain)
                  => Count(tools, n) = Count(McpTools(variant, domain), n)

C1_Witness ==
    /\ FilterRan /\ domain = "wifi"
    /\ ctx.adv = <<"play_video", "network_status_display", "holo_display">>
    /\ MapNames(tools) = <<"wifi_diagnostic", "restart_router", "network_status_display">>

\* The capability that needs approval in each domain.
ApprovalName(d) == IF d = "wifi" THEN "restart_router" ELSE "rent_movie"

\* C2: a capability that needs approval (restart_router for wifi, rent_movie for
\* video) is executed only as the result of a decision: every execution of it in
\* the worker's log follows a resume, and while the worker awaits approval nothing
\* has been executed since the capability was selected.
C2_NoExecutionBeforeDecision ==
    /\ \A i \in 1..Len(executed) :
          executed[i].name = ApprovalName(domain) => executed[i].decided
    /\ wstate = "AwaitingApproval" => Len(executed) = pending.at

C2_Witness ==
    /\ variant = "schema" /\ domain = "video"
    /\ pc = "suspended" /\ wstate = "AwaitingApproval"
    /\ pending.name = "rent_movie"
    /\ Len(executed) = 1 /\ executed[1].name = "search_content"

\* The client tools a domain is due for an advertisement, name by name.
RECURSIVE ExpectedClientTools(_, _)
ExpectedClientTools(d, adv) ==
    IF adv = <<>> THEN <<>>
    ELSE (IF Head(adv) \in Permitted(d) /\ InRegistry(Head(adv))
          THEN <<Tool(Head(adv), "registry")>> ELSE <<>>)
         \o ExpectedClientTools(d, Tail(adv))

\* C4: the toolset negotiated for a domain and an advertisement is the domain's
\* fixed capabilities followed by the registry tool of each advertised name that is
\* permitted for the domain and present in the registry, in advertisement order.
C4_ExactToolset ==
    FilterRan =>
        /\ tools = McpTools(variant, domain) \o ExpectedClientTools(domain, ctx.adv)
        /\ (domain = "wifi" /\ ctx.adv = <<"confirmation_dialog", "error_display">>)
              => MapNames(tools) = <<"wifi_diagnostic", "restart_router",
                                     "confirmation_dialog", "error_display">>
        /\ (domain = "wifi" /\ ctx.adv = <<"confirmation_dialog", "error_display",
                                           "play_video", "network_status_display">>)
              => MapNames(tools) = <<"wifi_diagnostic", "restart_router",
                                     "confirmation_dialog", "error_display",
                                     "network_status_display">>

C4_Witness ==
    /\ FilterRan /\ domain = "video"
    /\ ctx.adv = <<"confirmation_dialog", "error_display", "play_video",
                   "network_status_display">>
    /\ MapNames(tools) = <<"search_content", "confirmation_dialog", "error_display",
                           "play_video">>

\* C5: when the client advertises names in config.configurable and the supervisor
\* delegates to a worker, every advertised name that is permitted for the domain
\* and in the registry is in the toolset the worker's filter middleware injects.
C5_WorkerUsesAdvertisedList ==
    (pc # "negotiated" /\ variant = "middleware" /\ logged[domain]) =>
        \A n \in Range(configurable) :
            (n \in Permitted(domain) /\ InRegistry(n)) => Registered(tools, n)

\* C6: every capability a worker executes is a member of the toolset negotiated
\* for the request.
C6_OnlyNegotiatedToolsExecuted ==
    \A i \in 1..Len(executed) : executed[i].offered

\* C7: a name that is both a fixed capability of the domain and a caller-advertised
\* capability occurs once in the toolset, as the fixed capability.
C7_FixedWins ==
    (pc = "negotiated" /\ raised = "none") =>
        \A i \in 1..Len(tools) :
            (\E j \in 1..Len(McpTools(variant, domain)) :
                  McpTools(variant, domain)[j].name = tools[i].name)
                => /\ tools[i].origin = "mcp"
                   /\ Count(tools, tools[i].name) = 1

\* A schema that is well formed and names domain d.
WellFormedFor(s, d) ==
    s.name # NoName /\ s.domains.kind = "list" /\ d \in Range(s.domains.list)

\* C8: building the toolset never raises, whatever the advertised schemas are
\* (no name, no domains list, a domains value that is not a list), and every
\* caller-advertised tool of the result comes from a well-formed schema.
C8_NegotiationNeverRaises ==
    pc \in {"negotiated", "failed"} =>
        /\ raised = "none"
        /\ \A i \in 1..Len(tools) :
              tools[i].origin = "schema"
                  => \E j \in 1..Len(schemas) :
                        schemas[j].name = tools[i].name /\ WellFormedFor(schemas[j], domain)

\* C9: while a worker awaits approval the delegation tool has returned no text
\* and the run has not gone past the delegation; the interrupt the supervisor's
\* caller sees is the worker's suspended call, unchanged.
C9_SuspensionSurfacesUnchanged ==
    /\ wstate = "AwaitingApproval"
          => /\ wrapperText = NoText
             /\ pc \in {"delegated", "suspended"}
             /\ pending # NoCall
    /\ pc = "suspended"
          => /\ wstate = "AwaitingApproval"
             /\ topInterrupt = pending
    /\ pc # "suspended" => topInterrupt = NoCall

C9_Witness ==
    /\ pc = "suspended" /\ variant = "schema" /\ domain = "wifi"
    /\ topInterrupt.name = "restart_router"
    /\ wrapperText = NoText

\* C10: every UI event a capability emitted inside a worker, of any domain, is in
\* the caller's UI channel, with its name and properties, when the request is done.
C10_UiEventsReachCaller ==
    pc = "done" =>
        \A i \in 1..Len(emitted) : \E j \in 1..Len(callerUi) : callerUi[j] = emitted[i]

\* s is t with some elements left out, the others in t's order.
RECURSIVE IsSubSeq(_, _)
IsSubSeq(s, t) ==
    IF s = <<>> THEN TRUE
    ELSE IF t = <<>> THEN FALSE
    ELSE IF Head(s) = Head(t) THEN IsSubSeq(Tail(s), Tail(t))
    ELSE IsSubSeq(s, Tail(t))

\* C11: the UI events the caller has received are, at every moment of a request,
\* events that were emitted, in the order of their emission: an event emitted
\* later is never in the caller's channel before one emitted earlier, also when
\* the events were emitted inside a worker and pushed again by the wrapper.
C11_UiOrderPreserved == IsSubSeq(callerUi, emitted)

C11_Witness ==
    /\ pc = "done" /\ variant = "schema" /\ domain = "video"
    /\ Len(emitted) = 2 /\ emitted[1] # emitted[2]
    /\ callerUi = emitted

\* C12: the text the delegation tool returns to the supervisor is never the
\* payload of a UI-rendering capability (the video player data of play_video).
C12_PayloadOnlyOnUiChannel ==
    pc \in {"returned", "done"} => wrapperText # "video_player payload"

\* C13: the toolsets one domain's filter computes for the same advertisement are
\* all equal, however many times it runs, on an instance that has logged already
\* or on a fresh one.
C13_NegotiationIdempotent ==
    \A i, j \in 1..Len(injected) :
        CtxOf(injected[i].req).adv = CtxOf(injected[j].req).adv
            => injected[i].tools = injected[j].tools

C13_Witness ==
    /\ Len(injected) = 3 /\ domain = "wifi"
    /\ ctx.adv = <<"network_status_display">>
    /\ \A i \in 1..3 : injected[i].req = "A"
    /\ injected[1].first /\ ~injected[2].first /\ injected[3].first
    /\ MapNames(injected[3].tools) = <<"wifi_diagnostic", "restart_router",
                                       "network_status_display">>

\* C14: when requests with different advertisements are served in any
\* interleaving by one worker and one filter instance, the toolset injected for
\* a model call is the one due to the advertisement of the call's own request.
C14_ToolsetOfOwnRequest ==
    \A i \in 1..Len(injected) :
        injected[i].tools = McpTools(variant, domain)
                            \o ExpectedClientTools(domain, CtxOf(injected[i].req).adv)

C14_Witness ==
    /\ Len(injected) = 3 /\ domain = "video"
    /\ injected[1].req = "A" /\ injected[2].req = "B" /\ injected[3].req = "A"
    /\ ctx.adv = <<"play_video">> /\ otherCtx.adv = <<"confirmation_dialog">>
    /\ MapNames(injected[2].tools) = <<"search_content", "confirmation_dialog">>
    /\ MapNames(injected[3].tools) = <<"search_content", "play_video">>

\* C15: after loading, every tool a server serves is in the fixed tools of the
\* domain that owns the server and in the fixed tools of no other domain,
\* whatever its name is.
C15_ToolsGroupedByServer ==
    pc = "loaded" =>
        \A i \in 1..Len(loaded) :
            /\ loaded[i] \in Range(grouped[loaded[i].server])
            /\ \A d \in Domains \ {loaded[i].server} : loaded[i] \notin Range(grouped[d])

\* The advertised names the registry knows, in advertisement order.
Known(adv) == SelectSeq(adv, InRegistry)

\* C16: looking up a list of advertised names never raises; a name the registry
\* does not know adds no tool, and the other names are resolved, one registry tool
\* each and in order, as if the unknown names were not in the list.
C16_UnknownNamesDropped ==
    pc = "looked up" =>
        /\ raised = "none"
        /\ \A i \in 1..Len(tools) : InRegistry(tools[i].name) /\ tools[i].origin = "registry"
        /\ MapNames(tools) = Known(ctx.adv)

C16_Witness ==
    /\ pc = "looked up"
    /\ ctx.adv = <<"play_video", "holo_display", "error_display">>
    /\ MapNames(tools) = <<"play_video", "error_display">>

\* C17: the domain filter returns exactly the domain's fixed capabilities, and
\* raises nothing, when the domain has no entry in the policy table, when the
\* advertisement is empty and when the request carries no advertisement.
C17_DegenerateGivesFixedOnly ==
    (FilterRan /\ (domain \notin Domains \/ ~ctx.isDict \/ ctx.adv = <<>>)) =>
        /\ tools = McpTools(variant, domain)
        /\ raised = "none"

C17_Witness ==
    /\ FilterRan /\ domain = "billing"
    /\ ctx.adv = <<"confirmation_dialog", "play_video">>
    /\ tools = <<>>

\* What each approval-required capability returns when it has done its work.
PostApprovalResults ==
    {"router restart initiated", "movie rented", "user confirmed first option"}

\* C18: the response to the selection of an approval-required capability is a
\* suspension, with the suspended call and with no text and no UI events; and
\* when the suspended call has run on a resume with decision "approve", what it
\* returned to the worker is the capability's post-approval result.
C18_ApproveYieldsResult ==
    /\ pc = "suspended"
          => topInterrupt # NoCall /\ wrapperText = NoText /\ callerUi = <<>>
    /\ \A i \in 1..Len(executed) :
          executed[i].decision = "approve" => executed[i].result \in PostApprovalResults

\* C19: on a resume the decision itself is the result of the suspended
\* invocation; the capability is not invoked with the user's choice filled in
\* as an argument.
C19_DecisionBoundAsResult ==
    \A i \in 1..Len(executed) :
        executed[i].decided
            => /\ executed[i].result \in {executed[i].decision, executed[i].selected_option}
               /\ executed[i].selected_option = NoOption

\* C20: confirmation_dialog runs only after a user's decision, in every domain
\* whose toolset can contain it: each of its executions in a worker's log follows
\* a resume.
C20_ConfirmationDialogAlwaysPauses ==
    \A i \in 1..Len(executed) :
        executed[i].name = "confirmation_dialog" => executed[i].decided

\* The name of the tool made from schema s.
SchemaToolName(s) == IF s.name = NoName THEN "unknown_tool" ELSE s.name

\* Schema s has a domains property and d is a member of it.
NamesDomain(s, d) ==
    \/ s.domains.kind = "list" /\ d \in Range(s.domains.list)
    \/ s.domains.kind = "str" /\ d = s.domains.str

\* C24: for every list of advertised schemas, the toolset get_filtered_tools
\* builds for domain D is D's provider tools followed by one tool for each
\* schema that has a domains property with D in it, in advertisement order; a
\* schema without a domains property gives no tool for any domain.
C24_SchemaFilterExact ==
    (pc = "negotiated" /\ variant = "schema") =>
        LET accepted == SelectSeq(schemas, LAMBDA s : NamesDomain(s, domain))
        IN tools = McpTools(variant, domain)
                   \o [i \in 1..Len(accepted) |-> Tool(SchemaToolName(accepted[i]), "schema")]

\* The decisions by which a user approves a rental.
ApprovesRental(e) ==
    \/ e.decision = "approve"
    \/ e.decision = "edit" /\ e.selected_option = "Yes, Rent"

\* C25: rent_movie returns its success result only when the user approved the
\* rental: not without a decision and not for a declining option, whether the
\* option contains the word "cancel" or not.
C25_RentalOnlyWhenApproved ==
    \A i \in 1..Len(executed) :
        (executed[i].name = "rent_movie" /\ executed[i].origin = "mcp"
            /\ executed[i].result = "movie rented")
          => executed[i].decided /\ ApprovesRental(executed[i])

\* C26: every execution of restart_router carries the option the user selected
\* and never returns the "awaiting confirmation" text; it initiates the restart
\* exactly when the option is "Yes, Restart Router" and reports a cancellation
\* for every other option.
C26_RestartCarriesOption ==
    \A i \in 1..Len(executed) :
        (executed[i].name = "restart_router" /\ executed[i].origin = "mcp")
          => /\ executed[i].selected_option # NoOption
             /\ executed[i].result # "awaiting confirmation to restart router"
             /\ executed[i].result = (IF executed[i].selected_option = "Yes, Restart Router"
                                      THEN "router restart initiated"
                                      ELSE "router restart cancelled by user")

C28_MonotoneInAdvertisement ==
    \A i, j \in 1..Len(injected) :
        Range(CtxOf(injected[i].req).adv) \subseteq Range(CtxOf(injected[j].req).adv)
            => Range(injected[i].tools) \subseteq Range(injected[j].tools)

C28_Witness ==
    /\ domain = "wifi" /\ Len(injected) = 2
    /\ injected[1].req = "A" /\ injected[2].req = "B"
    /\ ctx.adv = <<"confirmation_dialog">>
    /\ otherCtx.adv = <<"play_video", "confirmation_dialog">>
    /\ MapNames(injected[1].tools) = <<"wifi_diagnostic", "restart_router", "confirmation_dialog">>
    /\ injected[2].tools = injected[1].tools

\* C29: the negotiated toolset holds each capability name once, whatever the
\* advertisement is, also when a name is advertised twice or two advertised
\* schemas have one name.
C29_NamesUnique ==
    (pc = "negotiated" /\ raised = "none") =>
        \A i \in 1..Len(tools) : Count(tools, tools[i].name) = 1

HasWifiKeyword(t) == \E k \in {"wifi", "network", "router", "diagnostic"} : k \in NameKeywords(t.name)
HasVideoKeyword(t) ==
    \E k \in {"video", "content", "search", "movie", "rent", "stream"} : k \in NameKeywords(t.name)
OnlyVideoKeyword(t) == HasVideoKeyword(t) /\ ~HasWifiKeyword(t)

====
